---------------------------- MODULE Spec2Model ----------------------------
(***************************************************************************)
(* Model of the IMU digit recogniser (lous-e/syen):                        *)
(*   - src/infer.py            live loop, keep_writing_segment, parse_row  *)
(*   - src/train_svm_digits.py keep_writing_segment, load_dataset          *)
(*   - src/write.py            wait_for_segment                            *)
(*                                                                         *)
(* Four specifications share the module:                                   *)
(*   Spec        the live loop of infer.py main()                          *)
(*   SpecTrim    keep_writing_segment applied to bounded input frames      *)
(*   SpecCapture wait_for_segment of write.py                              *)
(*   SpecLoad    load_dataset of train_svm_digits.py                       *)
(* Each specification holds the variables of the others at a fixed value.  *)
(***************************************************************************)
EXTENDS Integers, Sequences, FiniteSets

VARIABLES
    \* ---- infer.py main() ----
    line,       \* the line returned by the last ser.readline()
    in_write,   \* main's local in_write
    buf,        \* main's local buf
    running,    \* FALSE once an exception has left main's while-loop
    printed,    \* what the last iteration printed: "", "SKIP" or "PREDICT"
    tracked,    \* TRUE while hist and segs hold the whole past
    hist,       \* history: the records parse_row has returned so far
    segs,       \* history: every buf handed to keep_writing_segment
    \* ---- keep_writing_segment as a pure function ----
    arg_df,     \* the frame passed in
    ret_df,     \* the frame returned
    trim_pc,    \* "call" before the call, "done" after it
    \* ---- write.py wait_for_segment(ser, target_label) ----
    target_label,
    in_seg,     \* wait_for_segment's local in_seg
    seg_buf,    \* wait_for_segment's local buf
    captured,   \* what wait_for_segment returned (main's rows)
    cap_pc,     \* "wait" inside the loop, "returned" after return buf
    seen,       \* history: the non-empty lines read so far
    \* ---- train_svm_digits.py load_dataset(data_dir) ----
    listing,    \* sorted(data_dir.glob("digit_*.csv")) with each file's content
    fidx,       \* position of the for-loop in listing
    X,          \* load_dataset's local X
    y,          \* load_dataset's local y
    files,      \* load_dataset's local files
    load_pc,    \* "scan", "returned" or "raised"
    err         \* the exception that left load_dataset, "" when none

vars ==
    <<line, in_write, buf, running, printed, tracked, hist, segs,
      arg_df, ret_df, trim_pc,
      target_label, in_seg, seg_buf, captured, cap_pc, seen,
      listing, fidx, X, y, files, load_pc, err>>

live_vars == <<line, in_write, buf, running, printed, tracked, hist, segs>>
trim_vars == <<arg_df, ret_df, trim_pc>>
cap_vars == <<target_label, in_seg, seg_buf, captured, cap_pc, seen>>
load_vars == <<listing, fidx, X, y, files, load_pc, err>>

\* ------------------------------------------------------------------------
\* Bounds of the model
\* ------------------------------------------------------------------------
\* longest frame enumerated for keep_writing_segment
MaxRows == 10
\* longest buf the live loop is let to build
MaxBuf == 9
\* the history variables hist and segs follow the first MaxHist records
MaxHist == 7
\* most non-empty lines wait_for_segment reads in one behaviour
MaxLines == 5

\* ------------------------------------------------------------------------
\* Small helpers
\* ------------------------------------------------------------------------
Range(s) == {s[i] : i \in 1..Len(s)}

Max(a, b) == IF a >= b THEN a ELSE b

\* ------------------------------------------------------------------------
\* Data frames.  A frame is its set of column names and its rows; every row
\* carries idx, the pandas index label given when the frame was built
\* (0-based position), which row selection keeps.  A float is modelled by
\* its printed value ("0.0", "nan"), an int by an integer.
\* ------------------------------------------------------------------------
CHANNELS == <<"ax", "ay", "az", "gx", "gy", "gz">>

AllCols == {"t_ms", "ax", "ay", "az", "gx", "gy", "gz", "state", "label"}

\* pd.DataFrame(): no columns, no rows
EmptyFrame == [cols |-> {}, rows |-> <<>>]

\* DataFrame.empty
empty(df) == df.cols = {} \/ df.rows = <<>>

\* pd.DataFrame(buf) for a list of record dicts: a RangeIndex is attached
DataFrame(recs) ==
    IF recs = <<>> THEN EmptyFrame
    ELSE [cols |-> AllCols,
          rows |-> [i \in 1..Len(recs) |->
                      [idx |-> i - 1, t_ms |-> recs[i].t_ms,
                       ax |-> recs[i].ax, ay |-> recs[i].ay, az |-> recs[i].az,
                       gx |-> recs[i].gx, gy |-> recs[i].gy, gz |-> recs[i].gz,
                       state |-> recs[i].state, label |-> recs[i].label]]]

\* ------------------------------------------------------------------------
\* keep_writing_segment (infer.py 88-100, train_svm_digits.py 35-52)
\* ------------------------------------------------------------------------
trim_ms == 200

\* df[df["state"] == 1]
state_rows(rows) == SelectSeq(rows, LAMBDA r : r.state = 1)

\* pandas Series.is_monotonic_increasing: every value >= its predecessor
is_monotonic_increasing(rows) ==
    \A i \in 1..(Len(rows) - 1) : rows[i].t_ms <= rows[i + 1].t_ms

\* rows.iloc[a:-a] for 0 < a (empty when the slice is empty)
iloc_trim(rows, a) == SubSeq(rows, a + 1, Len(rows) - a)

\* t0, t1 = first and last t_ms; keep left <= t_ms <= right
time_window_open(rows) ==
    LET t0    == rows[1].t_ms
        t1    == rows[Len(rows)].t_ms
        left  == t0 + trim_ms
        right == t1 - trim_ms
    IN  SelectSeq(rows, LAMBDA r : r.t_ms > left /\ r.t_ms < right)

time_window(rows) ==
    LET t0    == rows[1].t_ms
        t1    == rows[Len(rows)].t_ms
        left  == t0 + trim_ms
        right == t1 - trim_ms
    IN  SelectSeq(rows, LAMBDA r : r.t_ms >= left /\ r.t_ms <= right)

\* if len(df) < 8: df = df.iloc[2:-2] if len(df) > 4 else df
short_fallback_ge4(rows) ==
    IF Len(rows) < 8
    THEN (IF Len(rows) >= 4 THEN iloc_trim(rows, 2) ELSE rows)
    ELSE rows

short_fallback(rows) ==
    IF Len(rows) < 8
    THEN (IF Len(rows) > 4 THEN iloc_trim(rows, 2) ELSE rows)
    ELSE rows

\* k = max(2, len(df)//20); if len(df) > 2*k: df = df.iloc[k:-k]
count_trim_one(rows) ==
    LET k == Max(1, Len(rows) \div 20)
    IN  IF Len(rows) > 2 * k THEN iloc_trim(rows, k) ELSE rows

count_trim(rows) ==
    LET k == Max(2, Len(rows) \div 20)
    IN  IF Len(rows) > 2 * k THEN iloc_trim(rows, k) ELSE rows

\* if len(df) < 8: return pd.DataFrame()
too_short_4(rows) == Len(rows) < 4

too_short(rows) == Len(rows) < 8

keep_writing_segment(df) ==
    LET rows == state_rows(df.rows)
    IN  IF too_short(rows) THEN EmptyFrame
        ELSE IF "t_ms" \in df.cols /\ is_monotonic_increasing(rows)
             THEN [cols |-> df.cols,
                   rows |-> short_fallback(time_window(rows))]
             ELSE [cols |-> df.cols, rows |-> count_trim(rows)]

\* ------------------------------------------------------------------------
\* parse_row (infer.py 138-150).  A line is modelled by the fields that
\* line.strip().split(",") yields; the empty string read on a timeout is
\* the empty sequence.
\* ------------------------------------------------------------------------
\* tokens int() accepts, with their values
IsInt(tok) == tok \in {"0", "1", "2", "100"}

IntOf(tok) ==
    CASE tok = "0" -> 0 [] tok = "1" -> 1 [] tok = "2" -> 2 [] tok = "100" -> 100

\* tokens float() accepts: every int token, decimals, and nan/inf
IsFloat(tok) == IsInt(tok) \/ tok \in {"0.5", "nan", "inf"}

FloatOf(tok) ==
    CASE tok = "0" -> "0.0" [] tok = "1" -> "1.0" [] tok = "2" -> "2.0"
      [] tok = "100" -> "100.0" [] OTHER -> tok

\* Python's None
None == [none |-> TRUE]

parse_row_min8(p) ==
    IF Len(p) < 8 THEN None
    ELSE IF ~(/\ IsInt(p[1]) /\ IsInt(p[8])
              /\ \A i \in 2..7 : IsFloat(p[i]))
         THEN None
         ELSE [t_ms |-> IntOf(p[1]),
               ax |-> FloatOf(p[2]), ay |-> FloatOf(p[3]), az |-> FloatOf(p[4]),
               gx |-> FloatOf(p[5]), gy |-> FloatOf(p[6]), gz |-> FloatOf(p[7]),
               state |-> IntOf(p[8]), label |-> "-"]

parse_row(p) ==
    IF Len(p) # 9 THEN None
    ELSE IF ~(/\ IsInt(p[1]) /\ IsInt(p[8])
              /\ \A i \in 2..7 : IsFloat(p[i]))
         THEN None
         ELSE [t_ms |-> IntOf(p[1]),
               ax |-> FloatOf(p[2]), ay |-> FloatOf(p[3]), az |-> FloatOf(p[4]),
               gx |-> FloatOf(p[5]), gy |-> FloatOf(p[6]), gz |-> FloatOf(p[7]),
               state |-> IntOf(p[8]), label |-> p[9]]

\* ------------------------------------------------------------------------
\* The lines the serial port delivers in this model
\* ------------------------------------------------------------------------
\* "" : readline timed out
EmptyLine == <<>>

\* t_ms,ax,ay,az,gx,gy,gz,state,label
DataLine(t, a, st) == <<t, a, "0", "0", "0", "0", "0", st, "-">>

IdleLine == DataLine("0", "0", "0")

OtherLine == DataLine("0", "0", "2")

WriteLine == DataLine("0", "0", "1")

\* a writing sample with a later timestamp whose ax is not a number
WriteLineNaN == DataLine("100", "nan", "1")

\* eight fields only
ShortLine == <<"0", "0", "0", "0", "0", "0", "0", "1">>

\* nine fields, ax not numeric
BadNumLine == DataLine("0", "x", "1")

SerialLines ==
    {EmptyLine, IdleLine, OtherLine, WriteLine, WriteLineNaN, ShortLine, BadNumLine}

\* ------------------------------------------------------------------------
\* infer.py main(): one action per path through the body of the while-loop
\* ------------------------------------------------------------------------
\* trial_features followed by PIPE.predict raises when the frame holds a
\* value that is not finite: the per-trial z-score turns the whole channel
\* into nan and the k-NN estimator rejects nan input with a ValueError.
predict_raises(dfw) ==
    \E i \in 1..Len(dfw.rows) :
        \E c \in 1..Len(CHANNELS) : dfw.rows[i][CHANNELS[c]] \in {"nan", "inf"}

LiveIdle ==
    /\ line = <<>>
    /\ in_write = FALSE
    /\ buf = <<>>
    /\ running = TRUE
    /\ printed = ""
    /\ tracked = FALSE
    /\ hist = <<>>
    /\ segs = <<>>

CapIdle ==
    /\ target_label = ""
    /\ in_seg = FALSE
    /\ seg_buf = <<>>
    /\ captured = <<>>
    /\ cap_pc = "off"
    /\ seen = <<>>

LoadIdle ==
    /\ listing = <<>>
    /\ fidx = 0
    /\ X = <<>>
    /\ y = <<>>
    /\ files = <<>>
    /\ load_pc = "off"
    /\ err = ""

TrimIdle ==
    /\ arg_df = EmptyFrame
    /\ ret_df = EmptyFrame
    /\ trim_pc = "off"

\* lines 166-170: buf = [rec] on entering a segment, buf.append(rec) inside
buffer_record_append(in_w, b, rec) == Append(b, rec)

buffer_record(in_w, b, rec) == IF ~in_w THEN <<rec>> ELSE Append(b, rec)

Init ==
    /\ line = EmptyLine
    /\ in_write = FALSE
    /\ buf = <<>>
    /\ running = TRUE
    /\ printed = ""
    /\ tracked = TRUE
    /\ hist = <<>>
    /\ segs = <<>>
    /\ TrimIdle
    /\ CapIdle
    /\ LoadIdle

\* the history variables after one more record, with one more emitted
\* segment when emitted is a one-element sequence
Record(rec, emitted) ==
    IF tracked /\ Len(hist) < MaxHist
    THEN /\ tracked' = TRUE
         /\ hist' = Append(hist, rec)
         /\ segs' = segs \o emitted
    ELSE /\ tracked' = FALSE
         /\ hist' = <<>>
         /\ segs' = <<>>

\* line 162: if not line: continue
ReadNothing ==
    /\ running
    /\ line' = EmptyLine
    /\ printed' = ""
    /\ UNCHANGED <<in_write, buf, running, tracked, hist, segs,
                   trim_vars, cap_vars, load_vars>>

\* line 164: if not rec: continue
DropLine ==
    /\ running
    /\ \E l \in SerialLines :
         /\ l # EmptyLine
         /\ parse_row(l) = None
         /\ line' = l
    /\ printed' = ""
    /\ UNCHANGED <<in_write, buf, running, tracked, hist, segs,
                   trim_vars, cap_vars, load_vars>>

\* lines 166-170
BufferRecord ==
    /\ running
    /\ in_write => Len(buf) < MaxBuf
    /\ \E l \in SerialLines :
         LET rec == parse_row(l)
         IN  /\ l # EmptyLine
             /\ rec # None
             /\ rec.state = 1
             /\ line' = l
             /\ buf' = buffer_record(in_write, buf, rec)
             /\ in_write' = TRUE
             /\ Record(rec, <<>>)
    /\ printed' = ""
    /\ UNCHANGED <<running, trim_vars, cap_vars, load_vars>>

\* lines 171-181 with in_write set: the segment is closed and classified
CloseSegment ==
    /\ running
    /\ in_write
    /\ \E l \in SerialLines :
         LET rec == parse_row(l)
             df  == DataFrame(buf)
             dfw == keep_writing_segment(df)
         IN  /\ l # EmptyLine
             /\ rec # None
             /\ rec.state # 1
             /\ line' = l
             /\ in_write' = FALSE
             /\ Record(rec, <<buf>>)
             /\ IF empty(dfw)
                THEN /\ printed' = "SKIP"
                     /\ running' = TRUE
                ELSE IF predict_raises(dfw)
                     THEN /\ printed' = ""
                          /\ running' = FALSE
                     ELSE /\ printed' = "PREDICT"
                          /\ running' = TRUE
    /\ UNCHANGED <<buf, trim_vars, cap_vars, load_vars>>

\* lines 171-172 with in_write clear: nothing to do
IdleRecord ==
    /\ running
    /\ ~in_write
    /\ \E l \in SerialLines :
         LET rec == parse_row(l)
         IN  /\ l # EmptyLine
             /\ rec # None
             /\ rec.state # 1
             /\ line' = l
             /\ Record(rec, <<>>)
    /\ printed' = ""
    /\ UNCHANGED <<in_write, buf, running, trim_vars, cap_vars, load_vars>>

Next == ReadNothing \/ DropLine \/ BufferRecord \/ CloseSegment \/ IdleRecord

Spec == Init /\ [][Next]_vars

\* ------------------------------------------------------------------------
\* Properties of the live loop (checked under Spec)
\* ------------------------------------------------------------------------
\* the state flags of the records consumed so far
States == [i \in 1..Len(hist) |-> hist[i].state]

\* <<a, b>>: hist[a..b] is a maximal run of state==1 records that a later
\* record with state # 1 has closed
ClosedRuns ==
    {ab \in (1..Len(hist)) \X (1..Len(hist)) :
        /\ ab[1] <= ab[2]
        /\ \A i \in ab[1]..ab[2] : hist[i].state = 1
        /\ (ab[1] = 1 \/ hist[ab[1] - 1].state # 1)
        /\ ab[2] < Len(hist)
        /\ hist[ab[2] + 1].state # 1}

\* the run still open at the end of hist (empty when the last record is idle)
OpenRunStart ==
    CHOOSE a \in 1..(Len(hist) + 1) :
        /\ \A i \in a..Len(hist) : hist[i].state = 1
        /\ (a = 1 \/ hist[a - 1].state # 1)

\* C1: one segment per ACTIVE->IDLE transition, each the maximal run of
\* state==1 records in arrival order; 0,0,1,1,1,0,0 gives one segment of 3
\* records, 1,1,0,1,1,0 two segments of 2 records, idle records nothing.
C1_SegmentsAreRuns ==
    tracked =>
        /\ Len(segs) = Cardinality(ClosedRuns)
        /\ \A ab \in ClosedRuns :
              segs[Cardinality({cd \in ClosedRuns : cd[1] <= ab[1]})]
                  = SubSeq(hist, ab[1], ab[2])
        /\ in_write = (Len(hist) > 0 /\ hist[Len(hist)].state = 1)
        /\ in_write => buf = SubSeq(hist, OpenRunStart, Len(hist))
        /\ States = <<0, 0, 1, 1, 1, 0, 0>> => (Len(segs) = 1 /\ Len(segs[1]) = 3)
        /\ States = <<1, 1, 0, 1, 1, 0>>
              => (Len(segs) = 2 /\ Len(segs[1]) = 2 /\ Len(segs[2]) = 2)
        /\ (\A i \in 1..Len(hist) : hist[i].state = 0) => segs = <<>>

C1_Witness ==
    /\ tracked
    /\ States = <<1, 1, 0, 1, 1, 0>>
    /\ Len(segs) = 2
    /\ segs[2] = <<hist[4], hist[5]>>

\* an iteration that closes a segment: ACTIVE before it, IDLE after it
Closing == in_write /\ ~in_write'

\* the segment would make trial_features / PIPE.predict raise
Fails(seg) == predict_raises(keep_writing_segment(DataFrame(seg)))

\* C3: every closed segment has exactly one outcome, SKIP exactly when the
\* trimmed segment is empty and a prediction otherwise; no other iteration
\* prints an outcome.
C3_OneOutcomePerSegment ==
    [][IF Closing
       THEN printed' = IF empty(keep_writing_segment(DataFrame(buf)))
                       THEN "SKIP" ELSE "PREDICT"
       ELSE printed' = ""]_vars

\* C4: a segment whose feature extraction or classification raises leaves
\* the loop running in IDLE with SKIP as its only outcome.
C4_FailureContained ==
    [][(Closing /\ Fails(buf)) => (running' /\ printed' = "SKIP")]_vars

\* C5's malformed line: not exactly 9 fields, or a numeric field that does
\* not parse
Malformed(l) ==
    \/ Len(l) # 9
    \/ l[1] \notin {"0", "1", "2", "100"}
    \/ l[8] \notin {"0", "1", "2", "100"}
    \/ \E i \in 2..7 : l[i] \notin {"0", "1", "2", "100", "0.5", "nan", "inf"}

\* C5: reading a malformed line changes neither the controller state, nor
\* the buffer, nor what has been emitted.
C5_MalformedDropped ==
    [][(line' # EmptyLine /\ Malformed(line')) =>
          (printed' = "" /\ UNCHANGED <<in_write, buf, running, hist, segs>>)]_vars

C5_Witness ==
    /\ tracked
    /\ line = ShortLine
    /\ in_write
    /\ Len(buf) = 2
    /\ Len(segs) = 1

\* ------------------------------------------------------------------------
\* write.py wait_for_segment (29-63).  A line is modelled by the fields a
\* split on "," yields; read_line has already stripped it.
\* ------------------------------------------------------------------------
\* line.startswith("# START"), line.startswith("# STOP"), line.startswith("#")
startswith_START(l) == l[1] \in {"# START"}

startswith_STOP(l) == l[1] \in {"# STOP"}

startswith_hash(l) == l[1] \in {"# START", "# STOP", "# dbg"}

\* a field that begins with a decimal digit, as (\d+) needs
BeginsWithDigits(tok) == tok \in {"0", "1", "3", "4", "17", "42"}

\* start_re.match(line): "# START,([0-9]),(\d+)"; the value is group(1),
\* None when there is no match
start_re_match(l) ==
    IF l[1] = "# START" /\ Len(l) >= 3 /\ l[2] \in {"0", "1", "3", "4"}
       /\ BeginsWithDigits(l[3])
    THEN l[2] ELSE "None"

\* stop_re.match(line): "# STOP,([0-9]),(\d+)"
stop_re_match(l) ==
    IF l[1] = "# STOP" /\ Len(l) >= 3 /\ l[2] \in {"0", "1", "3", "4"}
       /\ BeginsWithDigits(l[3])
    THEN l[2] ELSE "None"

\* line 42: if m and m.group(1) == target_label
start_matches(l, label) == start_re_match(l) = label

\* line 50: if m and m.group(1) == target_label and in_seg
stop_returns_any(l, label, inseg) == stop_re_match(l) = label

stop_returns(l, label, inseg) == stop_re_match(l) = label /\ inseg

StartTarget == <<"# START", "3", "17">>
StartOther == <<"# START", "4", "17">>
\* a START line without its count: the pattern does not match
StartTruncated == <<"# START", "3">>
StopTarget == <<"# STOP", "3", "42">>
StopOther == <<"# STOP", "4", "42">>
\* a log line that happens to have nine fields
CommentLine == <<"# dbg", "0", "0", "0", "0", "0", "0", "1", "3">>
RowA == <<"0", "0", "0", "0", "0", "0", "0", "1", "3">>
RowB == <<"100", "0", "0", "0", "0", "0", "0", "1", "3">>
\* a data row cut to eight fields
RowShort == <<"0", "0", "0", "0", "0", "0", "0", "1">>

PortLines ==
    {StartTarget, StartOther, StartTruncated, StopTarget, StopOther,
     CommentLine, RowA, RowB, RowShort}

InitCapture ==
    /\ target_label = "3"
    /\ in_seg = FALSE
    /\ seg_buf = <<>>
    /\ captured = <<>>
    /\ cap_pc = "wait"
    /\ seen = <<>>
    /\ LiveIdle
    /\ TrimIdle
    /\ LoadIdle

Reading == cap_pc = "wait" /\ Len(seen) < MaxLines

\* lines 35-37: nothing read, sleep and read again
ReadTimeout ==
    /\ cap_pc = "wait"
    /\ UNCHANGED vars

\* lines 40-46: a line that starts with "# START"
StartMarker ==
    /\ Reading
    /\ \E l \in PortLines :
         /\ startswith_START(l)
         /\ seen' = Append(seen, l)
         /\ IF start_matches(l, target_label)
            THEN in_seg' = TRUE /\ seg_buf' = <<>>
            ELSE UNCHANGED <<in_seg, seg_buf>>
    /\ UNCHANGED <<target_label, captured, cap_pc, live_vars, trim_vars, load_vars>>

\* lines 48-53: a line that starts with "# STOP"
StopMarker ==
    /\ Reading
    /\ \E l \in PortLines :
         /\ ~startswith_START(l)
         /\ startswith_STOP(l)
         /\ seen' = Append(seen, l)
         /\ IF stop_returns(l, target_label, in_seg)
            THEN captured' = seg_buf /\ cap_pc' = "returned"
            ELSE UNCHANGED <<captured, cap_pc>>
    /\ UNCHANGED <<target_label, in_seg, seg_buf, live_vars, trim_vars, load_vars>>

\* lines 55-57: any other line that starts with "#"
CommentOrLog ==
    /\ Reading
    /\ \E l \in PortLines :
         /\ ~startswith_START(l)
         /\ ~startswith_STOP(l)
         /\ startswith_hash(l)
         /\ seen' = Append(seen, l)
    /\ UNCHANGED <<target_label, in_seg, seg_buf, captured, cap_pc,
                   live_vars, trim_vars, load_vars>>

\* lines 59-63: a data row
DataRow ==
    /\ Reading
    /\ \E l \in PortLines :
         /\ ~startswith_hash(l)
         /\ seen' = Append(seen, l)
         /\ seg_buf' = IF Len(l) = 9 /\ in_seg THEN Append(seg_buf, l) ELSE seg_buf
    /\ UNCHANGED <<target_label, in_seg, captured, cap_pc,
                   live_vars, trim_vars, load_vars>>

NextCapture == ReadTimeout \/ StartMarker \/ StopMarker \/ CommentOrLog \/ DataRow

SpecCapture == InitCapture /\ [][NextCapture]_vars

\* ------------------------------------------------------------------------
\* Properties of wait_for_segment (checked under SpecCapture)
\* ------------------------------------------------------------------------
\* a START / STOP marker carrying the label
IsStart(l, label) ==
    Len(l) >= 3 /\ l[1] = "# START" /\ l[2] = label /\ l[3] \in {"17", "42"}

IsStop(l, label) ==
    Len(l) >= 3 /\ l[1] = "# STOP" /\ l[2] = label /\ l[3] \in {"17", "42"}

\* a 9-field line that is not a comment
IsDataRow(l) == Len(l) = 9 /\ l[1] \notin {"# START", "# STOP", "# dbg"}

\* position in seen[1..n] of the most recent START for the target, 0 if none
LastStart(n) ==
    LET starts == {i \in 1..n : IsStart(seen[i], target_label)}
    IN  IF starts = {} THEN 0 ELSE CHOOSE i \in starts : \A j \in starts : j <= i

\* the data rows of seen[a+1..b], in arrival order
RowsBetween(a, b) == SelectSeq(SubSeq(seen, a + 1, b), IsDataRow)

\* C10: the capture returns only at a STOP for the target that follows a
\* START for the target, with exactly the 9-field non-comment lines received
\* since the most recent such START; nothing else changes the buffer or ends
\* the capture, and a repeated START discards what was buffered.
C10_CaptureBetweenMarkers ==
    LET n == Len(seen)
    IN  /\ cap_pc = "returned" =>
              /\ n >= 2
              /\ IsStop(seen[n], target_label)
              /\ LastStart(n - 1) > 0
              /\ captured = RowsBetween(LastStart(n - 1), n - 1)
              /\ \A i \in 1..(n - 1) :
                    IsStop(seen[i], target_label) => LastStart(i) = 0
        /\ cap_pc = "wait" =>
              /\ in_seg = (LastStart(n) > 0)
              /\ seg_buf = IF LastStart(n) > 0
                           THEN RowsBetween(LastStart(n), n) ELSE <<>>
              /\ \A i \in 1..n :
                    IsStop(seen[i], target_label) => LastStart(i) = 0

C10_Witness ==
    /\ cap_pc = "returned"
    /\ seen = <<StartTarget, RowA, StartTarget, RowB, StopTarget>>
    /\ captured = <<RowB>>

\* ------------------------------------------------------------------------
\* SpecTrim: keep_writing_segment applied once to each frame of TrimInputs
\* ------------------------------------------------------------------------
\* a row of an input frame: only idx, t_ms and state vary
TrimRow(i, t, s) ==
    [idx |-> i - 1, t_ms |-> t,
     ax |-> "0.0", ay |-> "0.0", az |-> "0.0",
     gx |-> "0.0", gy |-> "0.0", gz |-> "0.0",
     state |-> s, label |-> "3"]

\* successive t_ms differ by one of these
Deltas == {0 - trim_ms, 0, trim_ms}

RECURSIVE TimeAt(_, _)
\* t_ms of row i when row 1 is at 0 and row j+1 follows row j by d[j]
TimeAt(d, i) == IF i = 1 THEN 0 ELSE TimeAt(d, i - 1) + d[i - 1]

\* frames with a t_ms column: n rows, deltas d, and the row at position
\* idle (0: none) recorded with state 0
TimedFrame(n, d, idle) ==
    [cols |-> AllCols,
     rows |-> [i \in 1..n |->
                 TrimRow(i, TimeAt(d, i), IF i = idle THEN 0 ELSE 1)]]

\* frames without a t_ms column (the field is never read)
UntimedFrame(n) ==
    [cols |-> AllCols \ {"t_ms"},
     rows |-> [i \in 1..n |-> TrimRow(i, 0, 1)]]

\* 20 rows, t_ms rising linearly from 0 to 1000
Linear20 ==
    [cols |-> AllCols,
     rows |-> [i \in 1..20 |-> TrimRow(i, (1000 * (i - 1)) \div 19, 1)]]

\* 60 rows with falling t_ms: the shortest frame with len//20 > 2
Falling60 ==
    [cols |-> AllCols,
     rows |-> [i \in 1..60 |-> TrimRow(i, 6000 - 100 * i, 1)]]

InitTrim ==
    /\ \/ \E m \in 1..MaxRows : \E idle \in 0..m, d \in [1..(m - 1) -> Deltas] :
              arg_df = TimedFrame(m, d, idle)
       \/ \E n \in 0..MaxRows : arg_df = UntimedFrame(n)
       \/ arg_df \in {EmptyFrame, Linear20, Falling60}
    /\ ret_df = EmptyFrame
    /\ trim_pc = "call"
    /\ LiveIdle
    /\ CapIdle
    /\ LoadIdle

\* dfw = keep_writing_segment(df)
Trim ==
    /\ trim_pc = "call"
    /\ ret_df' = keep_writing_segment(arg_df)
    /\ trim_pc' = "done"
    /\ UNCHANGED <<arg_df, live_vars, cap_vars, load_vars>>

NextTrim == Trim

SpecTrim == InitTrim /\ [][NextTrim]_vars

\* ------------------------------------------------------------------------
\* train_svm_digits.py load_dataset (92-105) and label_from_name (30-33).
\* A file name is modelled by the parts of its stem between underscores:
\* digit_3_17.csv is <<"digit", "3", "17">>.
\* ------------------------------------------------------------------------
Name_3_17 == <<"digit", "3", "17">>
\* digit_7.csv: no underscore follows the digit
Name_7 == <<"digit", "7">>
Name_8_20 == <<"digit", "8", "20">>
\* digit_x_5.csv
Name_x_5 == <<"digit", "x", "5">>

\* the names in the order sorted() gives them
SortedNames == <<Name_3_17, Name_7, Name_8_20, Name_x_5>>

\* the value label_from_name returns; Raised stands for its ValueError
Raised == -1

\* int(m.group(1))
IntOfDigit(c) ==
    CASE c = "0" -> 0 [] c = "1" -> 1 [] c = "2" -> 2 [] c = "3" -> 3
      [] c = "4" -> 4 [] c = "5" -> 5 [] c = "6" -> 6 [] c = "7" -> 7
      [] c = "8" -> 8 [] c = "9" -> 9

\* digit_pat.search(p.name): "digit_([0-9])_" somewhere in the name
digit_pat_search(name) ==
    {i \in 1..(Len(name) - 2) :
        name[i] = "digit"
        /\ name[i + 1] \in {"0", "1", "2", "3", "4", "5", "6", "7", "8", "9"}}

label_from_name_default(name) ==
    LET m == digit_pat_search(name)
    IN  IF m = {} THEN 0
        ELSE IntOfDigit(name[(CHOOSE i \in m : \A j \in m : i <= j) + 1])

label_from_name(name) ==
    LET m == digit_pat_search(name)
    IN  IF m = {} THEN Raised
        ELSE IntOfDigit(name[(CHOOSE i \in m : \A j \in m : i <= j) + 1])

\* what pd.read_csv makes of a file: an exception, or a frame
Unreadable == [readable |-> FALSE, df |-> EmptyFrame]

CsvFile(df) == [readable |-> TRUE, df |-> df]

\* a frame without a state column
NoStateFrame ==
    [cols |-> AllCols \ {"state", "t_ms"},
     rows |-> [i \in 1..8 |-> TrimRow(i, 0, 1)]]

\* the contents a corpus file has in this model: unreadable, no state
\* column, 3 writing rows, 8 writing rows without or with timestamps
FileContents ==
    {Unreadable, CsvFile(NoStateFrame), CsvFile(UntimedFrame(3)),
     CsvFile(UntimedFrame(8)),
     CsvFile(TimedFrame(8, [i \in 1..7 |-> 0], 0))}

\* train_svm_digits.py 37-38: the state column is required
has_state_column(df) == "state" \in df.cols

\* the feature vector, reduced to the number of rows it was computed from
trial_features(dfw) == <<"feats", Len(dfw.rows)>>

\* a name the directory does not hold
Absent == [absent |-> TRUE]

RECURSIVE Listing(_, _)
\* the files of the directory in sorted order: present maps each name of
\* SortedNames[i..] either to Absent or to its content
Listing(present, i) ==
    IF i > Len(SortedNames) THEN <<>>
    ELSE (IF present[i] = Absent THEN <<>>
          ELSE <<[name |-> SortedNames[i], content |-> present[i].c]>>)
         \o Listing(present, i + 1)

InitLoad ==
    /\ \E present \in [1..Len(SortedNames) ->
                         {Absent} \cup {[c |-> x] : x \in FileContents}] :
          listing = Listing(present, 1)
    /\ fidx = 1
    /\ X = <<>>
    /\ y = <<>>
    /\ files = <<>>
    /\ load_pc = "scan"
    /\ err = ""
    /\ LiveIdle
    /\ TrimIdle
    /\ CapIdle

InLoop == load_pc = "scan" /\ fidx <= Len(listing)

fp == listing[fidx]

\* lines 95-98: read_csv raises, the file is skipped
SkipUnreadable ==
    /\ InLoop
    /\ ~fp.content.readable
    /\ fidx' = fidx + 1
    /\ UNCHANGED <<listing, X, y, files, load_pc, err, live_vars, trim_vars, cap_vars>>

\* line 99 with 37-38: keep_writing_segment raises for want of a state column
RaiseNoState ==
    /\ InLoop
    /\ fp.content.readable
    /\ ~has_state_column(fp.content.df)
    /\ load_pc' = "raised"
    /\ err' = "ValueError: CSV must include a 'state' column."
    /\ UNCHANGED <<listing, fidx, X, y, files, live_vars, trim_vars, cap_vars>>

\* line 100: if dfw.empty: continue
SkipEmpty ==
    /\ InLoop
    /\ fp.content.readable
    /\ has_state_column(fp.content.df)
    /\ empty(keep_writing_segment(fp.content.df))
    /\ fidx' = fidx + 1
    /\ UNCHANGED <<listing, X, y, files, load_pc, err, live_vars, trim_vars, cap_vars>>

\* lines 101-102 when label_from_name raises
RaiseLabel ==
    /\ InLoop
    /\ fp.content.readable
    /\ has_state_column(fp.content.df)
    /\ ~empty(keep_writing_segment(fp.content.df))
    /\ label_from_name(fp.name) = Raised
    /\ X' = Append(X, trial_features(keep_writing_segment(fp.content.df)))
    /\ load_pc' = "raised"
    /\ err' = "ValueError: Cannot parse label from filename"
    /\ UNCHANGED <<listing, fidx, y, files, live_vars, trim_vars, cap_vars>>

\* lines 101-102
AddSample ==
    /\ InLoop
    /\ fp.content.readable
    /\ has_state_column(fp.content.df)
    /\ ~empty(keep_writing_segment(fp.content.df))
    /\ label_from_name(fp.name) # Raised
    /\ X' = Append(X, trial_features(keep_writing_segment(fp.content.df)))
    /\ y' = Append(y, label_from_name(fp.name))
    /\ files' = Append(files, fp.name)
    /\ fidx' = fidx + 1
    /\ UNCHANGED <<listing, load_pc, err, live_vars, trim_vars, cap_vars>>

\* lines 103-104: if not X: raise RuntimeError
RaiseNoSamples ==
    /\ load_pc = "scan"
    /\ fidx > Len(listing)
    /\ X = <<>>
    /\ load_pc' = "raised"
    /\ err' = "RuntimeError: No usable samples found."
    /\ UNCHANGED <<listing, fidx, X, y, files, live_vars, trim_vars, cap_vars>>

\* line 105: return np.vstack(X), np.array(y), files
ReturnCorpus ==
    /\ load_pc = "scan"
    /\ fidx > Len(listing)
    /\ X # <<>>
    /\ load_pc' = "returned"
    /\ UNCHANGED <<listing, fidx, X, y, files, err, live_vars, trim_vars, cap_vars>>

NextLoad ==
    \/ SkipUnreadable \/ RaiseNoState \/ SkipEmpty \/ RaiseLabel \/ AddSample
    \/ RaiseNoSamples \/ ReturnCorpus

SpecLoad == InitLoad /\ [][NextLoad]_vars

\* ------------------------------------------------------------------------
\* Properties of load_dataset (checked under SpecLoad)
\* ------------------------------------------------------------------------
LoadDone == load_pc \in {"returned", "raised"}

\* the name does not follow digit_<one digit>_...
Unlabelable(name) ==
    ~(Len(name) >= 3 /\ name[1] = "digit"
      /\ name[2] \in {"0", "1", "2", "3", "4", "5", "6", "7", "8", "9"})

\* the digit a name carries
NameLabel(name) ==
    CHOOSE d \in 0..9 :
        name[2] = <<"0", "1", "2", "3", "4", "5", "6", "7", "8", "9">>[d + 1]

\* the file can be read and has at least 8 state==1 rows left by the trim
Usable(f) ==
    /\ f.content.readable
    /\ "state" \in f.content.df.cols
    /\ Len(SelectSeq(f.content.df.rows, LAMBDA r : r.state = 1)) >= 8
    /\ keep_writing_segment(f.content.df).rows # <<>>

\* C8 as stated: any file with an unparsable label, whatever its contents
\* and position, aborts the load; every sample carries the label of its file
\* name; with no usable sample the load fails.
C8_UnlabelableAlwaysAborts ==
    LoadDone =>
        /\ (\E i \in 1..Len(listing) : Unlabelable(listing[i].name))
              => load_pc = "raised"
        /\ \A i \in 1..Len(y) : y[i] = NameLabel(files[i])
        /\ load_pc = "returned" => X # <<>>

\* C8 amended: a file with an unparsable label aborts the load when its
\* contents are usable (readable, with a non-empty trimmed segment); an
\* unlabelable file that is unreadable or trims to nothing is skipped like
\* any other.  Every sample carries the label of its file name, and with no
\* usable sample the load fails instead of returning an empty corpus.
C8_UsableUnlabelableAborts ==
    /\ \A i \in 1..Len(y) :
          /\ ~Unlabelable(files[i])
          /\ y[i] = NameLabel(files[i])
    /\ Len(files) = Len(y)
    /\ LoadDone =>
          /\ (\E i \in 1..Len(listing) :
                 Unlabelable(listing[i].name) /\ Usable(listing[i]))
                => (load_pc = "raised" /\ err # "RuntimeError: No usable samples found.")
          /\ load_pc = "returned" => (X # <<>> /\ Len(y) = Len(X))
          /\ (\A i \in 1..Len(listing) : ~Usable(listing[i])
                 /\ (listing[i].content.readable => "state" \in listing[i].content.df.cols))
                => (load_pc = "raised" /\ err = "RuntimeError: No usable samples found.")

C8_Witness ==
    /\ load_pc = "raised"
    /\ err = "ValueError: Cannot parse label from filename"
    /\ Len(y) = 2
    /\ listing[fidx].name = Name_x_5

\* ------------------------------------------------------------------------
\* Properties of keep_writing_segment (checked under SpecTrim)
\* ------------------------------------------------------------------------
Called == trim_pc = "done"

\* the state==1 records of the input, in order
Ones == SelectSeq(arg_df.rows, LAMBDA r : r.state = 1)

Timed == "t_ms" \in arg_df.cols

StrictlyIncreasing(rows) ==
    \A i \in 1..(Len(rows) - 1) : rows[i].t_ms < rows[i + 1].t_ms

NonDecreasing(rows) ==
    \A i \in 1..(Len(rows) - 1) : rows[i].t_ms <= rows[i + 1].t_ms

\* the records of Ones with t0 + 200 <= t_ms <= t1 - 200, in order
Window ==
    SelectSeq(Ones, LAMBDA r : /\ r.t_ms >= Ones[1].t_ms + 200
                               /\ r.t_ms <= Ones[Len(Ones)].t_ms - 200)

\* s without its first k and last k elements
DropEnds(s, k) == [i \in 1..(Len(s) - 2 * k) |-> s[i + k]]

\* what count-based trimming of Ones is said to return
CountTrimmed ==
    LET n == Len(Ones)
        k == IF n \div 20 > 2 THEN n \div 20 ELSE 2
    IN  IF n > 2 * k THEN DropEnds(Ones, k) ELSE Ones

\* C2 as stated: the result is empty or has at least 8 records, and an
\* input with fewer than 8 state==1 records yields empty.
C2_MinLength ==
    Called =>
        /\ (ret_df.rows = <<>> \/ Len(ret_df.rows) >= 8)
        /\ (Len(Ones) < 8 => empty(ret_df))

\* C2 amended: an input with fewer than 8 state==1 records yields empty;
\* a non-empty result shorter than 8 records comes only from an input of at
\* least 8 state==1 records, through the time window leaving fewer than 8
\* records or through count trimming of fewer than 12 records.
C2_MinLengthOnInput ==
    Called =>
        /\ (Len(Ones) < 8 => empty(ret_df))
        /\ (Len(ret_df.rows) \in 1..7 =>
               /\ Len(Ones) >= 8
               /\ IF Timed /\ NonDecreasing(Ones)
                  THEN Len(Window) < 8
                  ELSE Len(Ones) < 12)

C2_Witness ==
    Called /\ Len(Ones) >= 8 /\ Len(ret_df.rows) \in 1..7

\* C6: at least 8 records, strictly increasing timestamps and at least 8
\* records inside [t0+200, t1-200]: the result is exactly the records inside
\* the window, in their original order; the 20-record frame rising linearly
\* from 0 to 1000 is trimmed to its records with t_ms in [200, 800].
C6_TimeWindow ==
    Called =>
        /\ (/\ Timed /\ Len(Ones) >= 8 /\ StrictlyIncreasing(Ones)
            /\ Len(Window) >= 8)
           => /\ {r.idx : r \in Range(ret_df.rows)} = {r.idx : r \in Range(Window)}
              /\ Range(ret_df.rows) \subseteq Range(arg_df.rows)
              /\ \A i \in 1..(Len(ret_df.rows) - 1) :
                    ret_df.rows[i].idx < ret_df.rows[i + 1].idx
        /\ arg_df = Linear20 =>
              /\ Len(ret_df.rows) = 12
              /\ {r.idx : r \in Range(ret_df.rows)} =
                    {r.idx : r \in {x \in Range(Linear20.rows) :
                                       x.t_ms >= 200 /\ x.t_ms <= 800}}

C6_Witness ==
    /\ Called /\ Timed /\ StrictlyIncreasing(Ones)
    /\ Len(Ones) = 10 /\ Len(ret_df.rows) = 8
    /\ ret_df.rows[1].idx = 1

\* C7 as stated: at least 8 records whose timestamps are absent or not
\* strictly increasing are count-trimmed.
C7_CountTrimNotStrict ==
    (Called /\ Len(Ones) >= 8 /\ (~Timed \/ ~StrictlyIncreasing(Ones)))
        => ret_df.rows = CountTrimmed

\* C7 amended: at least 8 records whose timestamps are absent or not
\* non-decreasing (some timestamp is smaller than its predecessor) are
\* count-trimmed; non-decreasing timestamps, equal neighbours included, take
\* the time window and every returned record lies inside it.
C7_CountTrimNotMonotonic ==
    Called =>
        /\ (Len(Ones) >= 8 /\ (~Timed \/ ~NonDecreasing(Ones)))
              => ret_df.rows = CountTrimmed
        /\ (Len(Ones) >= 8 /\ Timed /\ NonDecreasing(Ones))
              => Range(ret_df.rows) \subseteq Range(Window)

C7_Witness ==
    /\ Called /\ Timed /\ ~NonDecreasing(Ones) /\ Len(Ones) = 9
    /\ Len(ret_df.rows) = 5 /\ ret_df.rows[1].idx = 2

\* C9: at least 8 records with increasing timestamps whose window remainder
\* R has fewer than 8 records: the result is R without its first 2 and last 2
\* records when R has more than 4, and R itself otherwise; no record outside
\* the window comes back.
C9_ShortFallback ==
    (Called /\ Timed /\ Len(Ones) >= 8 /\ NonDecreasing(Ones) /\ Len(Window) < 8)
        => /\ ret_df.rows = IF Len(Window) > 4 THEN DropEnds(Window, 2) ELSE Window
           /\ Range(ret_df.rows) \subseteq Range(Window)

C9_Witness ==
    /\ Called /\ Timed /\ Len(Ones) >= 8 /\ StrictlyIncreasing(Ones)
    /\ Len(Window) = 7 /\ Len(ret_df.rows) = 3

=============================================================================
